---- MODULE Spec2Model ----
(***************************************************************************)
(* ServiceHub notification server (src/src/server_db.js) with its          *)
(* Notification collection (src/src/models/Notification.js).               *)
(*                                                                         *)
(* One Node.js process serves many requests; a handler runs without        *)
(* interruption between two `await`s, so every action below is one such    *)
(* synchronous stretch (or the store's own atomic step on a document).     *)
(***************************************************************************)
EXTENDS Integers, Sequences, FiniteSets, TLC

\* ---------------------------------------------------------------- bounds
MaxDispatch == 2    \* bulk-dispatch requests served in one behaviour
MaxChannels == 2    \* SSE connections opened in one behaviour
MaxMarkers == 2     \* mark-opened requests served in one behaviour
MaxClock == 1       \* the clock runs 0..MaxClock

\* ------------------------------------------------------- values and inputs
Undefined == "undefined"     \* a JS value that is absent / falsy
NoChannel == 0               \* clients.get(email) of an unregistered email
NullDate == -1               \* openedAt: { default: null }

Emails == {"a@x", "b@x"}
Dispatchers == 1..MaxDispatch
Channels == 1..MaxChannels
Markers == 1..MaxMarkers

Truthy(v) == v # Undefined /\ v # ""

\* `${notificationId}-${userId || email}`
RecordId(notificationId, userId, email) ==
  <<notificationId, "-", IF Truthy(userId) THEN userId ELSE email>>

\* priority === "high" ? "error" : priority === "medium" ? "warning" : "info"
Severity(priority) ==
  IF priority = "high" THEN "error"
  ELSE IF priority = "medium" THEN "warning"
  ELSE "info"

Target(email, userId) == [email |-> email, userId |-> userId]

Batch(nid, title, content, priority, isArray, targets, tracking, url) ==
  [notificationId |-> nid, title |-> title, content |-> content,
   priority |-> priority, targetUsersIsArray |-> isArray,
   targetUsers |-> targets, trackingEnabled |-> tracking,
   trackingCallbackUrl |-> url]

VARIABLES
  now,            \* the wall clock read by new Date() / Date.now
  notifications,  \* the Notification collection: a set of documents
  clients,        \* const clients = new Map(): email -> SSE response
  conn,           \* per SSE connection: handler position, socket, writes
  dispatch,       \* per bulk-dispatch request: handler position and locals
  marker,         \* per mark-opened request: handler position and locals
  callbacks       \* the outbound axios.post calls issued so far

vars == <<now, notifications, clients, conn, dispatch, marker, callbacks>>

\* ------------------------------------------------------------------ Init
IdleConn == [pc |-> "idle", email |-> Undefined, open |-> FALSE,
             written |-> <<>>, pendingNotifications |-> <<>>]

IdleDispatch == [pc |-> "idle", batch |-> Undefined, i |-> 0,
                 doc |-> Undefined, success |-> <<>>, failed |-> <<>>,
                 total |-> 0, status |-> 0]

IdleMarker == [pc |-> "idle", userEmail |-> Undefined,
               notificationId |-> <<>>, notification |-> Undefined,
               status |-> 0, message |-> Undefined, callback |-> Undefined]

Init ==
  /\ now = 0
  /\ notifications = {}
  /\ clients = [e \in Emails |-> NoChannel]
  /\ conn = [c \in Channels |-> IdleConn]
  /\ dispatch = [d \in Dispatchers |-> IdleDispatch]
  /\ marker = [m \in Markers |-> IdleMarker]
  /\ callbacks = <<>>

\* The clock advances between any two steps.
Tick ==
  /\ now < MaxClock
  /\ now' = now + 1
  /\ UNCHANGED <<notifications, clients, conn, dispatch, marker, callbacks>>

\* ------------------------------------------------- Notification collection
\* Schema validation run by Notification.create: required fields and enums.
ValidDoc(doc) ==
  /\ Truthy(doc.sourceNotificationId)
  /\ Truthy(doc.userEmail)
  /\ Truthy(doc.title)
  /\ Truthy(doc.content)
  /\ doc.priority \in {"high", "medium", "low"}
  /\ doc.severity \in {"error", "warning", "info"}

\* notificationId: { unique: true }
IdTaken(id) == \E n \in notifications : n.notificationId = id

\* Notification.find({ userEmail: email })
AllOf(email) == {n \in notifications : n.userEmail = email}

\* A query that forgets the opened: false filter.
PendingOfAnyState(email) == AllOf(email)

\* Notification.find({ userEmail: email, opened: false })
PendingOf(email) == {n \in notifications : n.userEmail = email /\ ~n.opened}

\* .sort({ createdAt: -1 }): every order of S that is newest first; documents
\* with equal createdAt come in an order the store chooses.
SortedNewestFirst(S) ==
  {q \in [1..Cardinality(S) -> S] :
     /\ \A n \in S : \E k \in 1..Cardinality(S) : q[k] = n
     /\ \A j, k \in 1..Cardinality(S) :
          j < k => q[j].createdAt >= q[k].createdAt}

\* A lookup by notificationId alone, whoever the caller is.
FindOneById(notificationId, userEmail) ==
  {n \in notifications : n.notificationId = notificationId}

\* Notification.findOne({ notificationId, userEmail }): the matching
\* documents (at most one, notificationId being unique).
FindOne(notificationId, userEmail) ==
  {n \in notifications :
     n.notificationId = notificationId /\ n.userEmail = userEmail}

\* --------------------------------------------------------- SSE projection
Event(type, id, via) == [type |-> type, id |-> id, via |-> via]

Handshake == Event("connected", <<>>, "handshake")

\* res.write of one notification; `via` records which code path wrote it.
NotificationEvent(id, via) == Event("notification", id, via)

\* ------------------------------------- POST /api/notifications/receive
\* A validation that forgets the title.
ValidBatchIgnoringTitle(b) ==
  /\ b.targetUsersIsArray
  /\ Len(b.targetUsers) > 0
  /\ Truthy(b.content)

\* The two validation ifs: targetUsers is a non-empty array, title and
\* content are truthy.
ValidBatch(b) ==
  /\ b.targetUsersIsArray
  /\ Len(b.targetUsers) > 0
  /\ Truthy(b.title)
  /\ Truthy(b.content)

\* const userNotification = { ... }
UserNotification(b, t) ==
  [notificationId |-> RecordId(b.notificationId, t.userId, t.email),
   sourceNotificationId |-> b.notificationId,
   userEmail |-> t.email,
   userId |-> t.userId,
   title |-> b.title,
   content |-> b.content,
   priority |-> IF Truthy(b.priority) THEN b.priority ELSE "medium",
   severity |-> Severity(b.priority),
   read |-> FALSE,
   opened |-> FALSE,
   openedAt |-> NullDate,
   trackingEnabled |-> b.trackingEnabled,
   trackingCallbackUrl |-> b.trackingCallbackUrl,
   createdAt |-> now]

Stored == "User not connected (notification stored for later)"
StoreOrSendFailed == "Failed to store/send notification"
MissingEmail == "Missing email"

Failure(t, reason) ==
  [email |-> t.email, userId |-> t.userId, reason |-> reason]

\* results.failed.push({ userId, name, reason: "Missing email" })
RecordMissingEmail(r, t) ==
  [r EXCEPT !.failed = Append(@, Failure(t, MissingEmail))]

\* A delivery entered at the head of the list.
RecordDeliveredFirst(r, t) ==
  [r EXCEPT !.success = <<[email |-> t.email, userId |-> t.userId,
                           notificationId |-> r.doc.notificationId]>> \o @]

\* results.success.push({ email, userId, name, notificationId })
RecordDelivered(r, t) ==
  [r EXCEPT !.success = Append(@, [email |-> t.email, userId |-> t.userId,
                                   notificationId |-> r.doc.notificationId])]

\* A catch that gives up the rest of the batch.
RecordFailedAbort(r, t) ==
  [r EXCEPT !.failed = Append(@, Failure(t, StoreOrSendFailed)),
            !.i = Len(r.batch.targetUsers)]

\* A rejected insert that is reported as a delivery all the same.
RecordFailedAsDelivered(r, t) == RecordDelivered(r, t)

\* catch (error): results.failed.push({ ..., reason: "Failed to store/send" })
RecordFailed(r, t) ==
  [r EXCEPT !.failed = Append(@, Failure(t, StoreOrSendFailed))]

\* An unconnected target that leaves no outcome entry.
RecordStoredDropped(r, t) == r

\* An unconnected target that falls through to the delivered entry.
RecordStoredAsDelivered(r, t) == RecordDelivered(r, t)

\* results.failed.push({ ..., reason: "User not connected (...)" })
RecordStored(r, t) ==
  [r EXCEPT !.failed = Append(@, Failure(t, Stored))]

\* A lookup that ignores a connection until its replay has been written.
LookupAfterReplay(email) ==
  IF clients[email] # NoChannel /\ conn[clients[email]].pc = "listening"
  THEN clients[email]
  ELSE NoChannel

\* const clientRes = clients.get(email)
Lookup(email) == clients[email]

\* The synchronous stretch from target r.i on: targets without email get
\* their failure entry and the loop goes on; the first target with an email
\* has its document built and `await Notification.create` is reached; past
\* the last target the handler answers res.json({ ..., results }).
RECURSIVE Continue(_)
Continue(r) ==
  IF r.i > Len(r.batch.targetUsers)
  THEN [r EXCEPT !.pc = "done", !.status = 200]
  ELSE LET t == r.batch.targetUsers[r.i]
       IN IF ~Truthy(t.email)
          THEN Continue([RecordMissingEmail(r, t) EXCEPT !.i = r.i + 1])
          ELSE [r EXCEPT !.pc = "create",
                         !.doc = UserNotification(r.batch, t)]

\* After the outcome of target r.i has been recorded: on to the next one.
Advance(r) == Continue([r EXCEPT !.i = r.i + 1])

\* The request arrives: batch validation, the results object, and the loop
\* up to its first await.
DispatchReceive(d, b) ==
  /\ dispatch[d].pc = "idle"
  /\ d > 1 => dispatch[d - 1].pc # "idle"
  /\ dispatch' = [dispatch EXCEPT ![d] =
       IF ValidBatch(b)
       THEN Continue([@ EXCEPT !.batch = b, !.i = 1,
                               !.total = Len(b.targetUsers)])
       ELSE [@ EXCEPT !.pc = "done", !.batch = b, !.status = 400]]
  /\ UNCHANGED <<now, notifications, clients, conn, marker, callbacks>>

\* The store executes the insert: it is rejected by schema validation, by
\* the unique index on notificationId or by a store fault (storeUp = FALSE).
StoreCreate(d, storeUp) ==
  LET r == dispatch[d]
      inserted == storeUp /\ ValidDoc(r.doc) /\ ~IdTaken(r.doc.notificationId)
  IN /\ r.pc = "create"
     /\ notifications' =
          IF inserted THEN notifications \cup {r.doc} ELSE notifications
     /\ dispatch' = [dispatch EXCEPT ![d].pc =
          IF inserted THEN "created" ELSE "rejected"]
     /\ UNCHANGED <<now, clients, conn, marker, callbacks>>

\* The handler resumes after the await: catch branch, or clients.get(email)
\* and the push; then the loop runs on to its next await or to the response.  A write on a response whose socket has closed either is
\* dropped without an error or raises into the catch branch (threw).
DispatchResume(d, threw) ==
  LET r == dispatch[d]
      t == r.batch.targetUsers[r.i]
      clientRes == Lookup(t.email)
  IN /\ r.pc \in {"created", "rejected"}
     /\ IF r.pc = "rejected"
        THEN /\ ~threw
             /\ dispatch' = [dispatch EXCEPT ![d] = Advance(RecordFailed(r, t))]
             /\ conn' = conn
        ELSE IF clientRes = NoChannel
        THEN /\ ~threw
             /\ dispatch' = [dispatch EXCEPT ![d] = Advance(RecordStored(r, t))]
             /\ conn' = conn
        ELSE IF threw
        THEN /\ ~conn[clientRes].open
             /\ dispatch' = [dispatch EXCEPT ![d] = Advance(RecordFailed(r, t))]
             /\ conn' = conn
        ELSE /\ conn' = [conn EXCEPT ![clientRes].written =
                  Append(@, NotificationEvent(r.doc.notificationId, "live"))]
             /\ dispatch' = [dispatch EXCEPT ![d] =
                  Advance(RecordDelivered(r, t))]
     /\ UNCHANGED <<now, notifications, clients, marker, callbacks>>

\* ------------------------------------------------------ GET /api/events
\* clients.set(email, res): the last connection of an email wins.
Register(email, c) == [clients EXCEPT ![email] = c]

\* clients.delete(email), as the close listener of connection c calls it.
Unregister(email, c) == [clients EXCEPT ![email] = NoChannel]

\* Headers, the "connected" event, clients.set, then the handler awaits
\* the pending-notifications query.
Connect(c, email) ==
  /\ conn[c].pc = "idle"
  /\ c > 1 => conn[c - 1].pc # "idle"
  /\ conn' = [conn EXCEPT ![c] =
       [@ EXCEPT !.pc = "query", !.email = email, !.open = TRUE,
                 !.written = <<Handshake>>]]
  /\ clients' = Register(email, c)
  /\ UNCHANGED <<now, notifications, dispatch, marker, callbacks>>

\* The store evaluates find({ userEmail, opened: false }).sort(...).
ConnectQuery(c) ==
  /\ conn[c].pc = "query"
  /\ \E q \in SortedNewestFirst(PendingOf(conn[c].email)) :
       conn' = [conn EXCEPT ![c] =
         [@ EXCEPT !.pc = "replay", !.pendingNotifications = q]]
  /\ UNCHANGED <<now, notifications, clients, dispatch, marker, callbacks>>

\* pendingNotifications.forEach(res.write), then req.on("close", ...).
ConnectReplay(c) ==
  LET q == conn[c].pendingNotifications
  IN /\ conn[c].pc = "replay"
     /\ conn' = [conn EXCEPT ![c] =
          [@ EXCEPT !.pc = "listening",
                    !.written = @ \o [k \in 1..Len(q) |->
                       NotificationEvent(q[k].notificationId, "replay")]]]
     /\ UNCHANGED <<now, notifications, clients, dispatch, marker, callbacks>>

\* The recipient's connection closes.  The close listener runs only if the
\* handler has attached it already (pc = "listening"); a listener attached
\* after the event never fires.
Close(c) ==
  /\ conn[c].pc \in {"query", "replay", "listening"}
  /\ conn[c].open
  /\ conn' = [conn EXCEPT ![c].open = FALSE]
  /\ clients' = IF conn[c].pc = "listening"
                THEN Unregister(conn[c].email, c)
                ELSE clients
  /\ UNCHANGED <<now, notifications, dispatch, marker, callbacks>>

\* -------------------------------- POST /api/notifications/mark-opened
\* A transition that sets read and openedAt but forgets the opened flag.
OpenedReadOnly(n) == [n EXCEPT !.read = TRUE, !.openedAt = now]

\* notification.read = true; .opened = true; .openedAt = new Date()
Opened(n) == [n EXCEPT !.read = TRUE, !.opened = TRUE, !.openedAt = now]

\* notification.save(): the modified paths are written to the stored
\* document of the same _id.
Save(local) ==
  {IF n.notificationId = local.notificationId
   THEN [n EXCEPT !.read = local.read, !.opened = local.opened,
                  !.openedAt = local.openedAt]
   ELSE n : n \in notifications}

\* trackingPayload of the outbound axios.post
TrackingPayload(n, userEmail) ==
  [url |-> n.trackingCallbackUrl,
   notificationId |-> n.sourceNotificationId,
   id |-> n.notificationId,
   userEmail |-> userEmail,
   openedAt |-> n.openedAt]

\* findOne resolves; 404, "Already marked as opened", or the local document
\* is modified and save() is called.
MarkOpenedFind(m, userEmail, notificationId) ==
  LET found == FindOne(notificationId, userEmail)
      n == CHOOSE x \in found : TRUE
      r == [marker[m] EXCEPT !.userEmail = userEmail,
                             !.notificationId = notificationId]
  IN /\ marker[m].pc = "idle"
     /\ m > 1 => marker[m - 1].pc # "idle"
     /\ marker' = [marker EXCEPT ![m] =
          IF found = {}
          THEN [r EXCEPT !.pc = "done", !.status = 404,
                         !.message = "Notification not found"]
          ELSE IF n.opened
          THEN [r EXCEPT !.pc = "done", !.status = 200,
                         !.message = "Already marked as opened"]
          ELSE [r EXCEPT !.pc = "save", !.notification = Opened(n)]]
     /\ UNCHANGED <<now, notifications, clients, conn, dispatch, callbacks>>

\* save() resolves; the tracking callback is issued if enabled.
MarkOpenedSave(m) ==
  LET n == marker[m].notification
      tracked == n.trackingEnabled /\ Truthy(n.trackingCallbackUrl)
  IN /\ marker[m].pc = "save"
     /\ notifications' = Save(n)
     /\ callbacks' = IF tracked
                     THEN Append(callbacks,
                                 TrackingPayload(n, marker[m].userEmail))
                     ELSE callbacks
     /\ marker' = [marker EXCEPT ![m] =
          IF tracked
          THEN [@ EXCEPT !.pc = "callback"]
          ELSE [@ EXCEPT !.pc = "done", !.status = 200,
                         !.message = "opened"]]
     /\ UNCHANGED <<now, clients, conn, dispatch>>

\* A handler whose callback failure reaches the outer catch: 500.
MarkOpenedCallbackUncaught(m, ok) ==
  /\ marker[m].pc = "callback"
  /\ marker' = [marker EXCEPT ![m] =
       IF ok
       THEN [@ EXCEPT !.pc = "done", !.status = 200, !.message = "opened",
                      !.callback = "sent"]
       ELSE [@ EXCEPT !.pc = "done", !.status = 500,
                      !.message = "Server error", !.callback = "failed"]]
  /\ UNCHANGED <<now, notifications, clients, conn, dispatch, callbacks>>

\* axios.post resolves, rejects or times out (ok = FALSE); the catch only
\* logs, and the response is the same.
MarkOpenedCallback(m, ok) ==
  /\ marker[m].pc = "callback"
  /\ marker' = [marker EXCEPT ![m] =
       [@ EXCEPT !.pc = "done", !.status = 200, !.message = "opened",
                 !.callback = IF ok THEN "sent" ELSE "failed"]]
  /\ UNCHANGED <<now, notifications, clients, conn, dispatch, callbacks>>

\* GET /api/notifications: all documents of the caller, newest first.
ListNotifications(email) == SortedNewestFirst(AllOf(email))

\* ------------------------------------------------------------ the inputs
CallbackUrl == "http://pm/callback"

\* A tracked release note for a@x (known by userId) and b@x (by email only).
BatchTracked ==
  Batch("n1", "T", "C", "high", TRUE,
        <<Target("a@x", "1"), Target("b@x", Undefined)>>, TRUE, CallbackUrl)

\* Another notification, for a@x with and without the userId and for b@x.
BatchTwice ==
  Batch("n2", "T", "C", "medium", TRUE,
        <<Target("a@x", "1"), Target("a@x", Undefined),
          Target("b@x", Undefined)>>, FALSE, Undefined)

\* The first notification sent again: one target has no email, a@x comes
\* without the userId, and the batch names no priority.
BatchMissingEmail ==
  Batch("n1", "T", "C", Undefined, TRUE,
        <<Target(Undefined, "2"), Target("a@x", Undefined)>>, FALSE, Undefined)

\* An empty target list.
BatchEmpty ==
  Batch("n4", "T", "C", "low", TRUE, <<>>, FALSE, Undefined)

\* No targetUsers in the body.
BatchNoTargets ==
  Batch("n3", "T", "C", "low", FALSE, <<>>, FALSE, Undefined)

\* targetUsers is an object that is not an array.
BatchNotList ==
  Batch("n3", "T", "C", "low", FALSE, <<Target("a@x", "1")>>, FALSE, Undefined)

\* No title.
BatchNoTitle ==
  Batch("n3", Undefined, "C", "high", TRUE,
        <<Target("a@x", "1"), Target("b@x", Undefined)>>, TRUE, CallbackUrl)

\* An empty content.
BatchNoContent ==
  Batch("n3", "T", "", "high", TRUE,
        <<Target("a@x", "1"), Target("b@x", Undefined)>>, TRUE, CallbackUrl)

\* The batches the validation turns down.
BatchesInvalid ==
  {BatchEmpty, BatchNoTargets, BatchNotList, BatchNoTitle, BatchNoContent}

Batches ==
  {BatchTracked, BatchTwice, BatchMissingEmail} \cup BatchesInvalid

\* The record ids of the targets of the batches in B: what a recipient
\* may ask to open.
IdsOf(B) ==
  UNION {{RecordId(b.notificationId, b.targetUsers[k].userId,
                    b.targetUsers[k].email) : k \in 1..Len(b.targetUsers)} :
         b \in B}

RecordIds == IdsOf(Batches)

\* ------------------------------------------------------------------ Next
Next ==
  \/ Tick
  \/ \E d \in Dispatchers, b \in Batches : DispatchReceive(d, b)
  \/ \E d \in Dispatchers, storeUp \in BOOLEAN : StoreCreate(d, storeUp)
  \/ \E d \in Dispatchers, threw \in BOOLEAN : DispatchResume(d, threw)
  \/ \E c \in Channels, e \in Emails : Connect(c, e)
  \/ \E c \in Channels : ConnectQuery(c)
  \/ \E c \in Channels : ConnectReplay(c)
  \/ \E c \in Channels : Close(c)
  \/ \E m \in Markers, e \in Emails, id \in RecordIds : MarkOpenedFind(m, e, id)
  \/ \E m \in Markers : MarkOpenedSave(m)
  \/ \E m \in Markers, ok \in BOOLEAN : MarkOpenedCallback(m, ok)

Spec == Init /\ [][Next]_vars

\* One tracked batch, then recipients open its records while the clock runs.
NextOpen ==
  \/ Tick
  \/ DispatchReceive(1, BatchTracked)
  \/ \E storeUp \in BOOLEAN : StoreCreate(1, storeUp)
  \/ DispatchResume(1, FALSE)
  \/ \E m \in Markers, e \in Emails, id \in IdsOf({BatchTracked}) :
       MarkOpenedFind(m, e, id)
  \/ \E m \in Markers : MarkOpenedSave(m)
  \/ \E m \in Markers, ok \in BOOLEAN : MarkOpenedCallback(m, ok)

SpecOpen == Init /\ [][NextOpen]_vars

\* Concurrent batches against one connection of a@x.
NextBatch ==
  \/ \E d \in Dispatchers, b \in {BatchTracked, BatchMissingEmail, BatchEmpty} :
       DispatchReceive(d, b)
  \/ \E d \in Dispatchers, storeUp \in BOOLEAN : StoreCreate(d, storeUp)
  \/ \E d \in Dispatchers, threw \in BOOLEAN : DispatchResume(d, threw)
  \/ Connect(1, "a@x")
  \/ ConnectQuery(1)
  \/ ConnectReplay(1)
  \/ Close(1)

SpecBatch == Init /\ [][NextBatch]_vars

\* One batch against the connections of a@x, who may open a record.
NextChannel ==
  \/ DispatchReceive(1, BatchTracked)
  \/ \E storeUp \in BOOLEAN : StoreCreate(1, storeUp)
  \/ \E threw \in BOOLEAN : DispatchResume(1, threw)
  \/ \E c \in Channels : Connect(c, "a@x")
  \/ \E c \in Channels : ConnectQuery(c)
  \/ \E c \in Channels : ConnectReplay(c)
  \/ \E c \in Channels : Close(c)
  \/ \E id \in IdsOf({BatchTracked}) : MarkOpenedFind(1, "a@x", id)
  \/ MarkOpenedSave(1)
  \/ \E ok \in BOOLEAN : MarkOpenedCallback(1, ok)

SpecChannel == Init /\ [][NextChannel]_vars

\* Two batches, one connection of a@x and the recipient opening a record,
\* while the clock runs.
NextReplay ==
  \/ Tick
  \/ DispatchReceive(1, BatchTwice)
  \/ DispatchReceive(2, BatchMissingEmail)
  \/ \E d \in Dispatchers : StoreCreate(d, TRUE)
  \/ \E d \in Dispatchers : DispatchResume(d, FALSE)
  \/ Connect(1, "a@x")
  \/ ConnectQuery(1)
  \/ ConnectReplay(1)
  \/ \E id \in IdsOf({BatchTwice}) : MarkOpenedFind(1, "a@x", id)
  \/ MarkOpenedSave(1)

SpecReplay == Init /\ [][NextReplay]_vars

\* Valid and invalid batches arrive while a@x connects.
NextValidate ==
  \/ \E d \in Dispatchers, b \in {BatchTracked} \cup BatchesInvalid :
       DispatchReceive(d, b)
  \/ \E d \in Dispatchers : StoreCreate(d, TRUE)
  \/ \E d \in Dispatchers : DispatchResume(d, FALSE)
  \/ Connect(1, "a@x")
  \/ ConnectQuery(1)
  \/ ConnectReplay(1)

SpecValidate == Init /\ [][NextValidate]_vars


\* ================================================================ claims

\* C1: for a tracked record with a callback URL, at most one outbound
\* confirmation call is ever attempted, whatever the interleaving of the
\* mark-opened requests for it.
AtMostOneConfirmationPerRecord ==
  \A j, k \in 1..Len(callbacks) :
    callbacks[j].id = callbacks[k].id => j = k

\* C2: the close of a connection that is not the one registered for its
\* email leaves the registry entry of that email as it is.
StaleCloseKeepsRegistration ==
  [][\A c \in Channels :
       (conn[c].open /\ ~conn'[c].open /\ clients[conn[c].email] # c)
         => clients'[conn[c].email] = clients[conn[c].email]]_vars

\* C5: once a record has openedAt set, no step changes its value.
OpenedAtWrittenOnce ==
  [][\A n \in notifications :
       n.openedAt # NullDate =>
         \E n2 \in notifications' :
           n2.notificationId = n.notificationId /\ n2.openedAt = n.openedAt]_vars

\* C6: a connection carries no live push before its replay has been written.
NoLivePushBeforeReplay ==
  \A c \in Channels :
    conn[c].pc \in {"query", "replay"} =>
      \A k \in 1..Len(conn[c].written) : conn[c].written[k].via # "live"

\* C8: when dispatch pushes to a registered connection that has closed, the
\* pass goes on, the target's outcome is a failure and not a delivery, and
\* the record stays persisted as it is.
PushToClosedIsFailedDelivery ==
  [][\A d \in Dispatchers, e \in Emails :
       (/\ dispatch[d].pc = "created"
        /\ dispatch'[d].pc # "created"
        /\ dispatch[d].doc.userEmail = e
        /\ clients[e] # NoChannel
        /\ ~conn[clients[e]].open)
       => /\ dispatch'[d].pc \in {"create", "done"}
          /\ dispatch'[d].success = dispatch[d].success
          /\ Len(dispatch'[d].failed) > Len(dispatch[d].failed)
          /\ dispatch'[d].failed[Len(dispatch[d].failed) + 1].email = e
          /\ notifications' = notifications
          /\ \E n \in notifications' :
               /\ n.notificationId = dispatch[d].doc.notificationId
               /\ n.userEmail = e]_vars

\* How often the target (email, userId) occurs in a sequence of targets or
\* of outcome entries.
Occurrences(q, email, userId) ==
  Cardinality({k \in 1..Len(q) : q[k].email = email /\ q[k].userId = userId})

\* C3: the response of an accepted batch has one outcome entry per target:
\* success.length + failed.length = total = targetUsers.length, and every
\* target occurs in the two lists as often as in the batch.
OutcomesAddUp ==
  \A d \in Dispatchers :
    (dispatch[d].pc = "done" /\ dispatch[d].status = 200) =>
      LET r == dispatch[d]
          targets == r.batch.targetUsers
      IN /\ Len(r.success) + Len(r.failed) = r.total
         /\ r.total = Len(targets)
         /\ \A k \in 1..Len(targets) :
              Occurrences(r.success, targets[k].email, targets[k].userId)
                + Occurrences(r.failed, targets[k].email, targets[k].userId)
              = Occurrences(targets, targets[k].email, targets[k].userId)

\* C3 witness: one finished batch holds a delivery and a missing-email
\* failure, another a stored outcome and a store failure.
OutcomesAddUpWitness ==
  \E d1, d2 \in Dispatchers :
    /\ dispatch[d1].pc = "done" /\ dispatch[d1].status = 200
    /\ dispatch[d2].pc = "done" /\ dispatch[d2].status = 200
    /\ Len(dispatch[d1].success) = 1
    /\ \E k \in 1..Len(dispatch[d1].failed) :
         dispatch[d1].failed[k].reason = MissingEmail
    /\ \E k \in 1..Len(dispatch[d2].failed) :
         dispatch[d2].failed[k].reason = Stored
    /\ \E k \in 1..Len(dispatch[d2].failed) :
         dispatch[d2].failed[k].reason = StoreOrSendFailed

\* C4: the store holds at most one record per (sourceNotificationId,
\* userEmail) pair.
OneRecordPerSourceAndRecipient ==
  \A n1, n2 \in notifications :
    (n1.sourceNotificationId = n2.sourceNotificationId
       /\ n1.userEmail = n2.userEmail) => n1 = n2

\* The notification events written on connection c.
WrittenIds(c) ==
  {conn[c].written[k].id :
     k \in {j \in 1..Len(conn[c].written) :
              conn[c].written[j].type = "notification"}}

\* C7: on a connection that is open, is the one registered for its email and
\* has written its replay, every persisted unopened record of that email has
\* been written, by replay or by live push, as soon as the dispatch that
\* created it has resumed from the insert.  A connection that is open and is
\* the only one its email has made is the registered one.
PersistedReachesConnection ==
  \A c \in Channels :
    /\ (/\ conn[c].pc \in {"query", "replay", "listening"}
        /\ conn[c].open
        /\ \A c2 \in Channels \ {c} : conn[c2].email # conn[c].email)
         => clients[conn[c].email] = c
    /\ (conn[c].pc = "listening" /\ conn[c].open
          /\ clients[conn[c].email] = c) =>
         \A n \in notifications :
           (n.userEmail = conn[c].email /\ ~n.opened) =>
             \/ n.notificationId \in WrittenIds(c)
             \/ \E d \in Dispatchers :
                  /\ dispatch[d].pc = "created"
                  /\ dispatch[d].doc.notificationId = n.notificationId

\* C7 witness: the dispatch ran while the connection was being set up: the
\* query saw nothing, the record came by live push, the dispatch is done.
PersistedReachesConnectionWitness ==
  \E c \in Channels :
    /\ conn[c].pc = "listening" /\ conn[c].open /\ clients[conn[c].email] = c
    /\ conn[c].pendingNotifications = <<>>
    /\ dispatch[1].pc = "done"
    /\ \E n \in notifications :
         /\ n.userEmail = conn[c].email /\ ~n.opened
         /\ \E k \in 1..Len(conn[c].written) :
              conn[c].written[k] = NotificationEvent(n.notificationId, "live")

\* C9: a record is inserted with opened = false and is from then on in the
\* list and in the pending query of its email; and when dispatch finds no
\* connection registered for the target's email, the outcome entry is
\* "stored", nothing is reported delivered, and the record is in the list
\* of that email and, while unopened, in its pending query.
UnconnectedTargetIsStored ==
  [][\A d \in Dispatchers, email \in Emails :
       LET r == dispatch[d]
       IN /\ (r.pc = "create" /\ dispatch'[d].pc = "created"
                /\ r.doc.userEmail = email) =>
               \E n \in notifications' :
                 /\ n.notificationId = r.doc.notificationId
                 /\ n.userEmail = email
                 /\ ~n.opened
          /\ (r.pc = "created" /\ dispatch'[d].pc # "created"
                /\ r.doc.userEmail = email
                /\ clients[email] = NoChannel) =>
               /\ dispatch'[d].success = r.success
               /\ Len(dispatch'[d].failed) > Len(r.failed)
               /\ dispatch'[d].failed[Len(r.failed) + 1] =
                    [email |-> email, userId |-> r.doc.userId,
                     reason |-> Stored]
               /\ \E n \in notifications' :
                    /\ n.notificationId = r.doc.notificationId
                    /\ n.userEmail = email
                    /\ \A q \in ListNotifications(email)' :
                         \E k \in 1..Len(q) : q[k] = n
                    /\ ~n.opened =>
                         \A q \in SortedNewestFirst(PendingOf(email))' :
                           \E k \in 1..Len(q) : q[k] = n]_vars

\* C9 witness: a@x had no connection, the outcome was "stored", and a
\* connection opened later has replayed the record.
UnconnectedTargetIsStoredWitness ==
  \E k \in 1..Len(dispatch[1].failed), c \in Channels :
    /\ dispatch[1].failed[k].reason = Stored
    /\ dispatch[1].failed[k].email = "a@x"
    /\ conn[c].pc = "listening"
    /\ \E j \in 1..Len(conn[c].written) :
         conn[c].written[j] =
           NotificationEvent(RecordId(dispatch[1].batch.notificationId,
                                      dispatch[1].failed[k].userId, "a@x"),
                             "replay")

\* C10: the query of a connecting email returns exactly the records of that
\* email that are unopened at that moment, newest createdAt first, and the
\* replay writes one event for each of them, in that order.
ReplayIsPendingNewestFirst ==
  [][\A c \in Channels :
       /\ (conn[c].pc = "query" /\ conn'[c].pc = "replay") =>
            LET q == conn'[c].pendingNotifications
                unopened == {n \in notifications :
                               n.userEmail = conn[c].email /\ ~n.opened}
            IN /\ {q[k] : k \in 1..Len(q)} = unopened
               /\ Len(q) = Cardinality(unopened)
               /\ \A j, k \in 1..Len(q) :
                    j < k => q[j].createdAt >= q[k].createdAt
       /\ (conn[c].pc = "replay" /\ conn'[c].pc = "listening") =>
            LET q == conn[c].pendingNotifications
            IN /\ Len(conn'[c].written) = Len(conn[c].written) + Len(q)
               /\ \A k \in 1..Len(conn[c].written) :
                    conn'[c].written[k] = conn[c].written[k]
               /\ \A k \in 1..Len(q) :
                    conn'[c].written[Len(conn[c].written) + k] =
                      [type |-> "notification", id |-> q[k].notificationId,
                       via |-> "replay"]]_vars

\* C10 witness: a replay of two records of a@x, the newer first, that left
\* out a record a@x had opened and the record of b@x.
ReplayIsPendingNewestFirstWitness ==
  /\ conn[1].pc = "listening"
  /\ Len(conn[1].pendingNotifications) = 2
  /\ conn[1].pendingNotifications[1].createdAt
       > conn[1].pendingNotifications[2].createdAt
  /\ Len(conn[1].written) = 3
  /\ conn[1].written[2].via = "replay" /\ conn[1].written[3].via = "replay"
  /\ \E n \in notifications :
       /\ n.userEmail = "a@x" /\ n.opened
       /\ n.openedAt <= conn[1].pendingNotifications[1].createdAt
       /\ n.notificationId \notin WrittenIds(1)
  /\ \E n \in notifications : n.userEmail = "b@x"

\* C11: a mark-opened request that starts after an earlier one for the same
\* (userEmail, notificationId) has answered with success is answered
\* "Already marked as opened", changes no record and issues no callback; and
\* the request that made the transition answers with the record it has set
\* to read = opened = true.
SecondOpenIsNoOp ==
  [][\A m \in Markers :
       /\ (/\ marker[m].pc = "idle"
           /\ marker'[m].pc # "idle"
           /\ \E m1 \in Markers \ {m} :
                /\ marker[m1].pc = "done"
                /\ marker[m1].status = 200
                /\ marker[m1].userEmail = marker'[m].userEmail
                /\ marker[m1].notificationId = marker'[m].notificationId)
          => /\ marker'[m].pc = "done"
             /\ marker'[m].status = 200
             /\ marker'[m].message = "Already marked as opened"
             /\ notifications' = notifications
             /\ callbacks' = callbacks
       /\ (/\ marker[m].pc # "done"
           /\ marker'[m].pc = "done"
           /\ marker'[m].message = "opened")
          => /\ marker'[m].status = 200
             /\ marker'[m].notification.read
             /\ marker'[m].notification.opened
             /\ marker'[m].notification.openedAt # NullDate]_vars

\* C11 witness: the first request opened a tracked record and its callback
\* was issued; the second, started afterwards, found it opened; one callback.
SecondOpenIsNoOpWitness ==
  /\ marker[1].pc = "done" /\ marker[1].message = "opened"
  /\ marker[2].pc = "done"
  /\ marker[2].message = "Already marked as opened"
  /\ marker[2].userEmail = marker[1].userEmail
  /\ marker[2].notificationId = marker[1].notificationId
  /\ Len(callbacks) = 1
  /\ \E n \in notifications :
       /\ n.notificationId = marker[1].notificationId
       /\ n.read /\ n.opened
       /\ n.openedAt = marker[1].notification.openedAt

\* C12: a batch whose targetUsers is absent, not an array or empty, or whose
\* title or content is missing, is answered 400 with no outcome entries, and
\* its arrival changes neither the store nor any connection nor the
\* registry; no record and no event ever carries its notificationId.
InvalidBatchHasNoEffect ==
  [][\A d \in Dispatchers :
       LET b == dispatch'[d].batch
       IN /\ (/\ dispatch[d].pc = "idle"
              /\ dispatch'[d].pc # "idle"
              /\ \/ ~b.targetUsersIsArray
                 \/ Len(b.targetUsers) = 0
                 \/ b.title \in {Undefined, ""}
                 \/ b.content \in {Undefined, ""})
             => /\ dispatch'[d].pc = "done"
                /\ dispatch'[d].status = 400
                /\ dispatch'[d].success = <<>>
                /\ dispatch'[d].failed = <<>>
                /\ notifications' = notifications
                /\ conn' = conn
                /\ clients' = clients
                /\ callbacks' = callbacks
          /\ dispatch'[d].status = 400
             => /\ dispatch'[d].pc = "done"
                /\ \A n \in notifications' :
                     n.sourceNotificationId # b.notificationId
                /\ \A c \in Channels :
                     \A k \in 1..Len(conn'[c].written) :
                       conn'[c].written[k].type = "notification"
                         => conn'[c].written[k].id[1] # b.notificationId]_vars

\* C12 witness: a batch without title was turned down with a@x connected
\* and a valid batch, delivered to a@x and stored for b@x, in the store.
InvalidBatchHasNoEffectWitness ==
  \E d1, d2 \in Dispatchers :
    /\ dispatch[d1].pc = "done" /\ dispatch[d1].status = 400
    /\ dispatch[d1].batch = BatchNoTitle
    /\ dispatch[d2].pc = "done" /\ dispatch[d2].status = 200
    /\ Len(dispatch[d2].success) = 1
    /\ conn[1].pc = "listening"
    /\ Cardinality(notifications) = 2

\* C13: every stored record has a priority among high, medium and low, and
\* its severity is the one the mapping gives for that stored priority:
\* high -> error, medium -> warning, low -> info.
SeverityFollowsStoredPriority ==
  \A n \in notifications :
    /\ n.priority \in {"high", "medium", "low"}
    /\ n.priority = "high" => n.severity = "error"
    /\ n.priority = "medium" => n.severity = "warning"
    /\ n.priority = "low" => n.severity = "info"

\* C14: a mark-opened request by an email for a notificationId that no
\* record has, or whose record has another userEmail, is answered 404
\* without a record in the response, changes no record and issues no
\* callback.
ForeignOrUnknownIsNotFound ==
  [][\A m \in Markers :
       (/\ marker[m].pc = "idle"
        /\ marker'[m].pc # "idle"
        /\ ~\E n \in notifications :
              /\ n.notificationId = marker'[m].notificationId
              /\ n.userEmail = marker'[m].userEmail)
       => /\ marker'[m].pc = "done"
          /\ marker'[m].status = 404
          /\ marker'[m].notification = Undefined
          /\ notifications' = notifications
          /\ callbacks' = callbacks]_vars

\* C14 witness: b@x asked for the unopened tracked record of a@x and got
\* 404, and so did a request for an id the store did not hold; the record
\* of a@x is unopened still and no callback has been issued.
ForeignOrUnknownIsNotFoundWitness ==
  \E m1, m2 \in Markers :
    /\ marker[m1].pc = "done" /\ marker[m1].status = 404
    /\ marker[m1].userEmail = "b@x"
    /\ marker[m2].pc = "done" /\ marker[m2].status = 404
    /\ ~\E n \in notifications :
          n.notificationId = marker[m2].notificationId
    /\ \E n \in notifications :
         /\ n.notificationId = marker[m1].notificationId
         /\ n.userEmail = "a@x"
         /\ n.trackingEnabled
         /\ ~n.opened /\ ~n.read /\ n.openedAt = NullDate
    /\ callbacks = <<>>

\* C15: when the outbound confirmation call of a first mark-opened ends, by
\* success, failure or timeout, the request is answered 200 with the record
\* it has opened, and the stored record stays read = opened = true with the
\* openedAt it had when the call was issued.
CallbackOutcomeDoesNotShow ==
  [][\A m \in Markers :
       (marker[m].pc = "callback" /\ marker'[m].pc # "callback")
       => /\ marker'[m].pc = "done"
          /\ marker'[m].status = 200
          /\ marker'[m].message = "opened"
          /\ marker'[m].notification = marker[m].notification
          /\ marker'[m].notification.read
          /\ marker'[m].notification.opened
          /\ marker'[m].notification.openedAt # NullDate
          /\ notifications' = notifications
          /\ \E n \in notifications' :
               /\ n.notificationId = marker[m].notificationId
               /\ n.read /\ n.opened /\ n.openedAt # NullDate]_vars

\* C15 witness: two requests each made an open transition of a tracked
\* record; the callback of one was sent, that of the other failed, and both
\* were answered 200 "opened".
CallbackOutcomeDoesNotShowWitness ==
  \E m1, m2 \in Markers :
    /\ marker[m1].pc = "done" /\ marker[m1].callback = "sent"
    /\ marker[m2].pc = "done" /\ marker[m2].callback = "failed"
    /\ marker[m1].status = 200 /\ marker[m2].status = 200
    /\ marker[m1].message = marker[m2].message
    /\ \E n \in notifications :
         /\ n.notificationId = marker[m2].notificationId
         /\ n.read /\ n.opened

\* C16: a rejected insert leaves the store as it is, and when the handler
\* resumes from it the target gets one failure entry, the earlier entries
\* stay, nothing is delivered, and the loop goes on with the next target
\* that has an email, whose document is built from the batch and that
\* target alone; without such a target the batch is answered 200 with one
\* entry per target.
StoreFailureIsPerTarget ==
  [][\A d \in Dispatchers :
       LET r == dispatch[d]
           targets == r.batch.targetUsers
           later == {k \in (r.i + 1)..Len(targets) :
                       targets[k].email \notin {Undefined, ""}}
       IN /\ (r.pc = "create" /\ dispatch'[d].pc = "rejected")
             => notifications' = notifications
          /\ (r.pc = "rejected" /\ dispatch'[d].pc # "rejected")
             => /\ dispatch'[d].success = r.success
                /\ Len(dispatch'[d].failed) > Len(r.failed)
                /\ \A k \in 1..Len(r.failed) :
                     dispatch'[d].failed[k] = r.failed[k]
                /\ dispatch'[d].failed[Len(r.failed) + 1] =
                     [email |-> targets[r.i].email,
                      userId |-> targets[r.i].userId,
                      reason |-> StoreOrSendFailed]
                /\ notifications' = notifications
                /\ conn' = conn
                /\ clients' = clients
                /\ IF later = {}
                   THEN /\ dispatch'[d].pc = "done"
                        /\ dispatch'[d].status = 200
                        /\ Len(dispatch'[d].success) + Len(dispatch'[d].failed)
                             = Len(targets)
                   ELSE \E k \in later :
                          /\ \A j \in later : k <= j
                          /\ dispatch'[d].pc = "create"
                          /\ dispatch'[d].i = k
                          /\ dispatch'[d].doc.userEmail = targets[k].email
                          /\ dispatch'[d].doc.userId = targets[k].userId
                          /\ dispatch'[d].doc.sourceNotificationId
                               = r.batch.notificationId
                          /\ dispatch'[d].doc.title = r.batch.title
                          /\ dispatch'[d].doc.content = r.batch.content]_vars

\* C16 witness: the store failed on the first target of a batch, a@x, whose
\* record does not exist; the second target, b@x, has its record and its
\* "stored" outcome, and the batch was answered 200.
StoreFailureIsPerTargetWitness ==
  \E d \in Dispatchers :
    /\ dispatch[d].pc = "done" /\ dispatch[d].status = 200
    /\ dispatch[d].batch = BatchTracked
    /\ dispatch[d].success = <<>>
    /\ Len(dispatch[d].failed) = 2
    /\ dispatch[d].failed[1].email = "a@x"
    /\ dispatch[d].failed[1].reason = StoreOrSendFailed
    /\ dispatch[d].failed[2].email = "b@x"
    /\ dispatch[d].failed[2].reason = Stored
    /\ \E n \in notifications : n.userEmail = "b@x"
    /\ ~\E n \in notifications : n.userEmail = "a@x"

\* C17: a target is reported delivered only by the request whose own insert
\* of the target's record succeeded, and in the step that writes that
\* record's event on the connection registered for the target's email at
\* that moment.  With an open connection registered the outcome is the
\* delivery; with none registered it is "stored".
DeliveredMeansPersistedAndPushed ==
  [][\A d \in Dispatchers, e \in Emails :
       LET r == dispatch[d]
       IN /\ (Len(dispatch'[d].success) > Len(r.success)
                /\ dispatch'[d].success[Len(r.success) + 1].email = e)
             => /\ r.pc = "created"
                /\ r.doc.userEmail = e
                /\ Len(dispatch'[d].success) = Len(r.success) + 1
                /\ dispatch'[d].success[Len(r.success) + 1].notificationId
                     = r.doc.notificationId
                /\ \E n \in notifications :
                     /\ n.notificationId = r.doc.notificationId
                     /\ n.userEmail = e
                /\ clients[e] # NoChannel
                /\ conn'[clients[e]].written =
                     Append(conn[clients[e]].written,
                            [type |-> "notification",
                             id |-> r.doc.notificationId, via |-> "live"])
          /\ (/\ r.pc = "created"
              /\ dispatch'[d].pc # "created"
              /\ r.doc.userEmail = e)
             => IF clients[e] = NoChannel
                THEN /\ dispatch'[d].success = r.success
                     /\ Len(dispatch'[d].failed) > Len(r.failed)
                     /\ dispatch'[d].failed[Len(r.failed) + 1].reason = Stored
                ELSE conn[clients[e]].open
                       => /\ Len(dispatch'[d].success) = Len(r.success) + 1
                          /\ dispatch'[d].success[Len(r.success) + 1].email = e
                          /\ dispatch'[d].failed = r.failed]_vars

\* C17 witness: a@x is connected, b@x is not; the batch for both reports
\* a@x delivered and b@x stored, and the event is on the connection of a@x.
DeliveredMeansPersistedAndPushedWitness ==
  \E d \in Dispatchers :
    /\ dispatch[d].pc = "done" /\ dispatch[d].status = 200
    /\ dispatch[d].batch = BatchTracked
    /\ Len(dispatch[d].success) = 1
    /\ dispatch[d].success[1].email = "a@x"
    /\ Len(dispatch[d].failed) = 1
    /\ dispatch[d].failed[1].email = "b@x"
    /\ dispatch[d].failed[1].reason = Stored
    /\ clients["a@x"] = 1 /\ clients["b@x"] = NoChannel
    /\ conn[1].open
    /\ \E k \in 1..Len(conn[1].written) :
         conn[1].written[k] =
           [type |-> "notification",
            id |-> dispatch[d].success[1].notificationId, via |-> "live"]

\* C18: the registry holds no connection that has closed: whenever the
\* connection registered for an email has run its connect handler to the
\* end, that connection is open.
NoClosedChannelRegistered ==
  \A e \in Emails :
    (clients[e] # NoChannel /\ conn[clients[e]].pc = "listening")
      => conn[clients[e]].open

\* C19: no connection carries two notification events of the same record.
RecordWrittenAtMostOnce ==
  \A c \in Channels :
    \A j, k \in 1..Len(conn[c].written) :
      (/\ conn[c].written[j].type = "notification"
       /\ conn[c].written[k].type = "notification"
       /\ conn[c].written[j].id = conn[c].written[k].id) => j = k

\* The first n targets of request r are the first a entries of its success
\* list and the first b entries of its failed list, each list in the order
\* of the targets.
RECURSIVE InInputOrder(_, _, _, _)
InInputOrder(r, n, a, b) ==
  IF n = 0
  THEN a = 0 /\ b = 0
  ELSE LET t == r.batch.targetUsers[n]
       IN \/ /\ a > 0
             /\ r.success[a].email = t.email
             /\ r.success[a].userId = t.userId
             /\ InInputOrder(r, n - 1, a - 1, b)
          \/ /\ b > 0
             /\ r.failed[b].email = t.email
             /\ r.failed[b].userId = t.userId
             /\ InInputOrder(r, n - 1, a, b - 1)

\* C20: while a request works on target i, the targets before i have their
\* outcome entries, in input order, and no target after i (nor i itself
\* before its insert) has a record in the store or an event on a connection;
\* the live events of one request on a connection are in input order.
TargetsInInputOrder ==
  \A d \in Dispatchers :
    LET r == dispatch[d]
        targets == r.batch.targetUsers
        id(k) == <<r.batch.notificationId, "-",
                   IF targets[k].userId \notin {Undefined, ""}
                   THEN targets[k].userId ELSE targets[k].email>>
        alone == \A d2 \in Dispatchers \ {d} :
                   \/ dispatch[d2].pc = "idle"
                   \/ dispatch[d2].batch.notificationId
                        # r.batch.notificationId
        untouched == IF r.pc = "create" THEN r.i..Len(targets)
                     ELSE (r.i + 1)..Len(targets)
    IN (r.pc \in {"create", "created", "rejected"}
          \/ (r.pc = "done" /\ r.status = 200))
       => /\ r.i \in 1..(Len(targets) + 1)
          /\ r.pc = "done" <=> r.i = Len(targets) + 1
          /\ Len(r.success) + Len(r.failed) = r.i - 1
          /\ InInputOrder(r, r.i - 1, Len(r.success), Len(r.failed))
          /\ alone =>
               /\ \A k \in untouched :
                    /\ \A n \in notifications : n.notificationId # id(k)
                    /\ \A c \in Channels :
                         \A j \in 1..Len(conn[c].written) :
                           conn[c].written[j].id # id(k)
               /\ \A c \in Channels :
                    \A j1, j2 \in 1..Len(conn[c].written) :
                      \A k1, k2 \in 1..Len(targets) :
                        (/\ j1 < j2
                         /\ conn[c].written[j1].via = "live"
                         /\ conn[c].written[j2].via = "live"
                         /\ conn[c].written[j1].id = id(k1)
                         /\ conn[c].written[j2].id = id(k2))
                        => k1 < k2

\* C20 witness: a batch of three targets is done; a@x, connected, got the
\* live events of targets 1 and 2 in that order, and target 3 was stored.
TargetsInInputOrderWitness ==
  /\ dispatch[1].pc = "done" /\ dispatch[1].status = 200
  /\ Len(dispatch[1].batch.targetUsers) = 3
  /\ Len(dispatch[1].success) = 2
  /\ dispatch[1].success[1].userId = "1"
  /\ dispatch[1].success[2].userId = Undefined
  /\ Len(dispatch[1].failed) = 1
  /\ dispatch[1].failed[1].email = "b@x"
  /\ \E j1, j2 \in 1..Len(conn[1].written) :
       /\ j1 < j2
       /\ conn[1].written[j1] =
            [type |-> "notification",
             id |-> dispatch[1].success[1].notificationId, via |-> "live"]
       /\ conn[1].written[j2] =
            [type |-> "notification",
             id |-> dispatch[1].success[2].notificationId, via |-> "live"]

====
